---- MODULE Spec2Model ----
(***************************************************************************)
(* Compagnon Casus: a Firefox extension for the CasusNo forum.             *)
(*                                                                         *)
(*  - content context  (src/script.js 1-199): StyleManager,                *)
(*    PreferenceStyler, DisplayManager                                     *)
(*  - background context (src/background.js 109-228): OnlineTracker        *)
(*                                                                         *)
(* Text values whose content the code inspects (a topic label that is      *)
(* trimmed, a notification count that is trimmed and compared with 1) are  *)
(* sequences of chunks; every other text is a string.  Rule strings and    *)
(* class names are built by concatenation, as the template literals build  *)
(* them.  The rules built from the preference values of SpecStyler and    *)
(* SpecDisplay are all parsable, so CSSStyleSheet.insertRule accepts them; *)
(* SpecRules gives a StyleManager a rule that insertRule rejects.          *)
(*                                                                         *)
(* Specifications: SpecStyler (one PreferenceStyler, applyStyles called    *)
(* row by row), SpecRules (one StyleManager called directly), SpecDisplay  *)
(* (DisplayManager.apply in one tab, with reloads), SpecTracker (the       *)
(* background context).                                                    *)
(***************************************************************************)
EXTENDS Integers, Sequences, FiniteSets, TLC

VARIABLES
  \* ---- content context ----
  preferences,   \* PreferenceStyler.preferences (result of storage.sync.get)
  dom,           \* the rows matched by dl.row-item, in document order
  head,          \* children of document.head: the document's style sources
  cssRules,      \* StyleManager.cssRules
  styleElement,  \* StyleManager.styleElement: FALSE is null
  sheet,         \* styleElement.sheet.cssRules
  index,         \* PreferenceStyler.index
  pos,           \* position of the forEach of applyStyles; 0: not running
  thrown,        \* whether the last applyStyles call ended by an exception
  applies,       \* applyStyles calls made on this instance
  minted,        \* class names built by addClass, in call order
  last,          \* what the last forEach callback did
  lastCall,      \* what the last call of a StyleManager operation did
  phase,         \* where DisplayManager.apply is in the loaded document
  page,          \* the rows of the document as the forum serves it
  loads,         \* loads of the document in the tab, reloads included
  passes,        \* applyStyles calls since the document was loaded
  lastMessage,   \* what the last runtime message to the tab did
  \* ---- settings page ----
  writes,        \* contents storage.sync has had, oldest first
  handlers,      \* the click handlers of save and reset, in click order
  storeOps,      \* storage.sync.set / clear calls that have not settled yet
  outbox,        \* tabs.sendMessage messages on their way to the tab
  tabRead,       \* which message loaded the tab's document, what it read
  \* ---- background context ----
  badge,         \* browserAction badge: text, background, text colour
  inflight,      \* refreshes whose fetch has not completed yet
  store,         \* storage.sync: the persisted refreshRate
  prefsRead,     \* whether storage.sync.get() of init has resolved
  changes,       \* storage.sync.onChanged events not delivered yet
  alarmCalls,    \* browser.alarms calls issued, not carried out yet
  alarm,         \* period of the autoRefresh alarm; NoAlarm when none
  tabsOpened,    \* tabs created by clicks on the extension icon
  lastEvent      \* what the last background handler did

stylerVars == <<preferences, dom, head, cssRules, styleElement, sheet, index,
                pos, thrown, applies, minted, last>>
trackerVars == <<badge, inflight, store, prefsRead, changes, alarmCalls,
                 alarm, tabsOpened, lastEvent>>
pageVars == <<lastCall, phase, page, loads, passes, lastMessage>>
optionsVars == <<writes, handlers, storeOps, outbox, tabRead>>
contentVars == <<stylerVars, pageVars, optionsVars>>
vars == <<stylerVars, pageVars, optionsVars, trackerVars>>

\* ------------------------------------------------------------------ bounds
MaxRows == 2       \* rows of the document
MaxApplies == 2    \* applyStyles calls on one instance
MaxInflight == 2   \* refreshes in flight at once
MaxChanges == 1    \* storage.onChanged events waiting for delivery
MaxAlarmCalls == 2 \* browser.alarms calls the host has not carried out
MaxTabs == 1       \* tabs opened by clicks
MaxLoads == 2      \* loads of the document in one tab
MaxRules == 4      \* rules a StyleManager used on its own tracks
MaxClicks == 2     \* clicks on save and reset in the settings page

\* ---------------------------------------------------------------- JS values
\* the value undefined (a missing property, an unset attribute)
Undefined == "<undefined>"

\* String(v) as a template literal converts v
Str(v) == IF v = Undefined THEN "undefined" ELSE v

\* whether v is truthy, for the strings and undefined
Truthy(v) == v # Undefined /\ v # ""

Range(s) == {s[i] : i \in 1..Len(s)}

\* whitespace chunks of a text
Whitespace == {" ", "\n", "\t"}

RECURSIVE TrimStart(_)
TrimStart(s) ==
  IF s # <<>> /\ Head(s) \in Whitespace THEN TrimStart(Tail(s)) ELSE s

RECURSIVE TrimEnd(_)
TrimEnd(s) ==
  IF s # <<>> /\ s[Len(s)] \in Whitespace
  THEN TrimEnd(SubSeq(s, 1, Len(s) - 1)) ELSE s

\* String.prototype.trim
Trim(s) == TrimEnd(TrimStart(s))

\* the string a sequence of chunks spells
RECURSIVE Join(_)
Join(s) == IF s = <<>> THEN "" ELSE Head(s) \o Join(Tail(s))

\* ------------------------------------------------------------- DOMTokenList
\* classList.add that appends without looking for the token
ClassAddAlways(list, token) == Append(list, token)

\* classList.add(token)
ClassAdd(list, token) ==
  IF token \in Range(list) THEN list ELSE Append(list, token)

\* s without its elements equal to x
RECURSIVE Without(_, _)
Without(s, x) ==
  IF s = <<>> THEN <<>>
  ELSE IF Head(s) = x THEN Without(Tail(s), x)
  ELSE <<Head(s)>> \o Without(Tail(s), x)

\* position of the first element of s that is in S
FirstIndex(s, S) ==
  CHOOSE i \in 1..Len(s) : s[i] \in S /\ \A j \in 1..(i - 1) : s[j] \notin S

\* classList.replace(token, newToken): no token, no change; else the first of
\* the two becomes newToken and the other one is removed
ClassReplace(list, token, newToken) ==
  IF token \notin Range(list) THEN list
  ELSE LET i == FirstIndex(list, {token, newToken})
       IN SubSeq(list, 1, i - 1)
          \o <<newToken>>
          \o Without(Without(SubSeq(list, i + 1, Len(list)), token), newToken)

\* ------------------------------------------------------------- StyleManager
\* the nodes of document.head
ForumStyle == "link:forum-stylesheet"
FontAwesomeLink == "link:font-awesome"
OwnStyle == "style:casus"

\* a rule insertRule rejects with a SyntaxError: the rule addClass builds for
\* a stored mode "}", whose selector cannot be parsed
MalformedRule == ".casus-}-0 { background-color: #e4dcbd; }"

\* whether insertRule can parse the rule
Parsable(rule) == rule # MalformedRule

\* CSSStyleSheet.insertRule(rule, i): the rule is put at index i, counted from 0
InsertRule(sh, rule, i) == SubSeq(sh, 1, i) \o <<rule>> \o SubSeq(sh, i + 1, Len(sh))

\* CSSStyleSheet.deleteRule(i), i counted from 0
DeleteRule(sh, i) == SubSeq(sh, 1, i) \o SubSeq(sh, i + 2, Len(sh))

\* while (sheet.cssRules.length) sheet.deleteRule(0)
RECURSIVE ClearSheet(_)
ClearSheet(sh) == IF Len(sh) # 0 THEN ClearSheet(DeleteRule(sh, 0)) ELSE sh

\* this.cssRules.forEach(rule => sheet.insertRule(rule, sheet.cssRules.length)):
\* the exception of a rejected rule leaves the forEach with the rules before
\* it installed
RECURSIVE InsertAll(_, _)
InsertAll(sh, rules) ==
  IF rules = <<>> THEN sh
  ELSE IF ~Parsable(Head(rules)) THEN sh
  ELSE InsertAll(InsertRule(sh, Head(rules), Len(sh)), Tail(rules))

\* whether insertCSSRules ends by the exception of an insertRule call
Rejects(rules) == \E i \in 1..Len(rules) : ~Parsable(rules[i])

\* new StyleManager(rules) in a document whose head is hd
StyleManagerNew(rules, hd) ==
  [cssRules |-> rules, styleElement |-> FALSE, sheet |-> <<>>,
   head |-> Append(hd, FontAwesomeLink)]

\* insertCSSRules without the loop that deletes the rules already installed
InsertCSSRulesNoClear(sm) ==
  LET made == IF ~sm.styleElement
              THEN [sm EXCEPT !.styleElement = TRUE, !.sheet = <<>>,
                              !.head = Append(@, OwnStyle)]
              ELSE sm
  IN [made EXCEPT !.sheet = InsertAll(made.sheet, made.cssRules)]

\* insertCSSRules that makes a style element on every call
InsertCSSRulesNewElement(sm) ==
  LET made == [sm EXCEPT !.styleElement = TRUE, !.sheet = <<>>,
                         !.head = Append(@, OwnStyle)]
  IN [made EXCEPT !.sheet = InsertAll(ClearSheet(made.sheet), made.cssRules)]

\* StyleManager.insertCSSRules
InsertCSSRules(sm) ==
  LET made == IF ~sm.styleElement
              THEN [sm EXCEPT !.styleElement = TRUE, !.sheet = <<>>,
                              !.head = Append(@, OwnStyle)]
              ELSE sm
  IN [made EXCEPT !.sheet = InsertAll(ClearSheet(made.sheet), made.cssRules)]

\* StyleManager.addRule
AddRule(sm, rule) == InsertCSSRules([sm EXCEPT !.cssRules = Append(@, rule)])

\* --------------------------------------------------------- PreferenceStyler
BASE == ".casus-no-post { opacity: 0.33; }"
SHADOW == "text-shadow: 1px 0 0 #000,-1px 0 0 #000,0 1px 0 #000,0 -1px 0 #000;"
ORIGINAL == "fa-file"

\* map?.[key]; a missing map is the empty map
Lookup(map, key) == IF key \in DOMAIN map THEN map[key] ELSE Undefined

\* new PreferenceStyler(preferences): the style manager and the counter
StylerNew(hd) ==
  LET sm == InsertCSSRules(StyleManagerNew(<<BASE>>, hd))
  IN [sm |-> sm, index |-> 0]

\* `casus-${mode}-${this.index++}`
ClassName(mode, i) == "casus-" \o Str(mode) \o "-" \o ToString(i)

\* the rule with the test on the mode the other way round
RuleTextInverted(mode, className, color) ==
  LET type == IF mode = "color-title" THEN "background-" ELSE ""
  IN "." \o className \o " { " \o type \o "color: " \o Str(color) \o "; }"

\* `.${className} { ${type}color: ${color}; }`
RuleText(mode, className, color) ==
  LET type == IF mode # "color-title" THEN "background-" ELSE ""
  IN "." \o className \o " { " \o type \o "color: " \o Str(color) \o "; }"

\* addClass with this.index in place of this.index++
AddClassSameIndex(eng, topic, mode, color) ==
  LET className == ClassName(mode, eng.index)
  IN [eng |-> [sm |-> AddRule(eng.sm, RuleText(mode, className, color)),
               index |-> eng.index],
      className |-> className]

\* PreferenceStyler.addClass
AddClass(eng, topic, mode, color) ==
  LET className == ClassName(mode, eng.index)
  IN [eng |-> [sm |-> AddRule(eng.sm, RuleText(mode, className, color)),
               index |-> eng.index + 1],
      className |-> className]

\* changeDisplay that leaves the shadow out of the icon's style
ChangeDisplayNoShadow(row, target, className, color, shadow) ==
  IF ~row.icon THEN [row |-> row, thrown |-> TRUE]
  ELSE LET styled == [row EXCEPT !.iconStyle = "color: " \o Str(color) \o "; "]
       IN [row |-> IF target = "row"
                   THEN [styled EXCEPT !.rowClasses = ClassAdd(@, className)]
                   ELSE [styled EXCEPT !.titleClasses = ClassAdd(@, className)],
           thrown |-> FALSE]

\* PreferenceStyler.changeDisplay; target is "row" or "title"; a null icon
\* makes icon.setAttribute throw before the class is added
ChangeDisplay(row, target, className, color, shadow) ==
  IF ~row.icon THEN [row |-> row, thrown |-> TRUE]
  ELSE LET styled == [row EXCEPT !.iconStyle = "color: " \o Str(color) \o "; " \o shadow]
       IN [row |-> IF target = "row"
                   THEN [styled EXCEPT !.rowClasses = ClassAdd(@, className)]
                   ELSE [styled EXCEPT !.titleClasses = ClassAdd(@, className)],
           thrown |-> FALSE]

\* the visibility branch with a class minted for hidden rows too
VisibilityBranchMintsHidden(row, eng, topic, mode, color) ==
  IF topic = "hidden"
  THEN LET m == AddClass(eng, topic, mode, color)
       IN [row |-> [row EXCEPT !.rowClasses = ClassAdd(@, m.className)],
           eng |-> m.eng, thrown |-> FALSE, className |-> m.className]
  ELSE IF topic = "highlight"
  THEN LET m == AddClass(eng, topic, mode, color)
           d == CASE mode = "full-line" ->
                       ChangeDisplay(row, "row", m.className, color, SHADOW)
                  [] mode = "highlight-title" ->
                       ChangeDisplay(row, "title", m.className, color, SHADOW)
                  [] mode = "color-title" ->
                       ChangeDisplay(row, "title", m.className, color, "")
                  [] OTHER ->
                       [row |-> [row EXCEPT !.titleClasses = ClassAdd(@, m.className)],
                        thrown |-> FALSE]
       IN [row |-> d.row, eng |-> m.eng, thrown |-> d.thrown,
           className |-> m.className]
  ELSE [row |-> row, eng |-> eng, thrown |-> FALSE, className |-> Undefined]

\* the visibility branch of the forEach callback of applyStyles
VisibilityBranch(row, eng, topic, mode, color) ==
  IF topic = "hidden"
  THEN [row |-> [row EXCEPT !.rowClasses = ClassAdd(@, "casus-no-post")],
        eng |-> eng, thrown |-> FALSE, className |-> Undefined]
  ELSE IF topic = "highlight"
  THEN LET m == AddClass(eng, topic, mode, color)
           d == CASE mode = "full-line" ->
                       ChangeDisplay(row, "row", m.className, color, SHADOW)
                  [] mode = "highlight-title" ->
                       ChangeDisplay(row, "title", m.className, color, SHADOW)
                  [] mode = "color-title" ->
                       ChangeDisplay(row, "title", m.className, color, "")
                  [] OTHER ->
                       [row |-> [row EXCEPT !.titleClasses = ClassAdd(@, m.className)],
                        thrown |-> FALSE]
       IN [row |-> d.row, eng |-> m.eng, thrown |-> d.thrown,
           className |-> m.className]
  ELSE [row |-> row, eng |-> eng, thrown |-> FALSE, className |-> Undefined]

\* the icon steps with the arguments of the first replace exchanged
IconStepsExchanged(row, icon) ==
  IF ~row.icon THEN [row |-> row, thrown |-> TRUE]
  ELSE LET swapped == IF Truthy(icon)
                      THEN [row EXCEPT !.iconClasses = ClassReplace(@, icon, ORIGINAL)]
                      ELSE row
       IN [row |-> [swapped EXCEPT !.iconClasses = ClassReplace(@, "icon-md", "icon-lg")],
           thrown |-> FALSE]

\* the icon steps that end the callback; a null unreadIcon makes
\* unreadIcon.classList throw
IconSteps(row, icon) ==
  IF ~row.icon THEN [row |-> row, thrown |-> TRUE]
  ELSE LET swapped == IF Truthy(icon)
                      THEN [row EXCEPT !.iconClasses = ClassReplace(@, ORIGINAL, icon)]
                      ELSE row
       IN [row |-> [swapped EXCEPT !.iconClasses = ClassReplace(@, "icon-md", "icon-lg")],
           thrown |-> FALSE]

\* the early returns without the test of title
SkippedUnlessTitle(row) == ~row.box \/ ~row.link

\* whether the callback returns before it reads the preferences
Skipped(row) == (~row.box \/ ~row.title) \/ ~row.link

\* thematic.textContent.trim()
ThemeName(row) == Join(Trim(row.label))

\* the forEach callback of applyStyles, on one row
RowCallback(prefs, row, eng) ==
  IF Skipped(row)
  THEN [row |-> row, eng |-> eng, thrown |-> FALSE, skipped |-> TRUE,
        className |-> Undefined]
  ELSE LET themeName == ThemeName(row)
           topic == Lookup(prefs.topics, themeName)
           mode == Lookup(prefs.modes, themeName)
           icon == Lookup(prefs.icons, themeName)
           color == Lookup(prefs.colors, themeName)
           v == VisibilityBranch(row, eng, topic, mode, color)
           i == IF v.thrown THEN [row |-> v.row, thrown |-> TRUE]
                ELSE IconSteps(v.row, icon)
       IN [row |-> i.row, eng |-> v.eng, thrown |-> i.thrown, skipped |-> FALSE,
           className |-> v.className]

\* --------------------------------------------------------- documents, inputs
\* a row of the list of threads, as the forum serves it
Row(box, title, link, label, iconClasses) ==
  [box |-> box, title |-> title, link |-> link, label |-> label,
   icon |-> iconClasses # <<>>,
   rowClasses |-> <<"row-item">>,
   titleClasses |-> IF title THEN <<"topictitle">> ELSE <<>>,
   iconClasses |-> iconClasses,
   iconStyle |-> Undefined]

StandardIcon == <<"icon", "fa-file", "icon-md">>
OtherIcon == <<"icon", "fa-comment">>

\* rows the callback styles, and rows it skips
FullRows ==
  {Row(TRUE, TRUE, TRUE, <<"Rumeurs">>, StandardIcon),
   Row(TRUE, TRUE, TRUE, <<"Rumeurs">>, <<>>),
   Row(TRUE, TRUE, TRUE, <<"\n", " ", "Rumeurs", " ">>, OtherIcon),
   Row(TRUE, TRUE, TRUE, <<"Autre">>, StandardIcon)}
PartialRows ==
  {Row(FALSE, TRUE, FALSE, <<>>, StandardIcon),
   Row(TRUE, FALSE, TRUE, <<"Rumeurs">>, StandardIcon),
   Row(TRUE, TRUE, FALSE, <<>>, StandardIcon)}
RowShapes == FullRows \cup PartialRows

Trees == UNION {[1..n -> RowShapes] : n \in 0..MaxRows}

\* one entry of a map of the preferences; no entry for undefined
Entry(key, v) == IF v = Undefined THEN <<>> ELSE key :> v

TopicValues == {Undefined, "visible", "hidden", "highlight"}
ModeValues == {Undefined, "full-line", "highlight-title", "color-title", "bogus"}
IconValues == {Undefined, "fa-star"}
ColorValues == {"#e4dcbd", "#abcdef"}

\* preference maps: the topic Rumeurs is configured in every way; the topic
\* Autre has no entry, or is highlighted with no mode, colour or icon stored
PreferenceMaps ==
  {[topics |-> Entry("Rumeurs", t) @@ Entry("Autre", a),
    modes |-> Entry("Rumeurs", m),
    icons |-> Entry("Rumeurs", i), colors |-> Entry("Rumeurs", c)] :
     t \in TopicValues, a \in {Undefined, "highlight"}, m \in ModeValues,
     i \in IconValues, c \in ColorValues}

\* ------------------------------------------------- content context: actions
NoCallback ==
  [pos |-> 0, before |-> <<>>, indexBefore |-> 0, rulesBefore |-> <<>>,
   skipped |-> FALSE, thrown |-> FALSE, className |-> Undefined]

\* the engine as the callback sees it
Engine ==
  [sm |-> [cssRules |-> cssRules, styleElement |-> styleElement,
           sheet |-> sheet, head |-> head],
   index |-> index]

\* where forEach goes after the callback on row p of n returned r: an
\* exception leaves applyStyles, a return goes on with the next row
ForEachNext(p, n, r) == IF r.thrown THEN 0 ELSE IF p = n THEN 0 ELSE p + 1

\* styler = new PreferenceStyler(preferences) on a freshly loaded document
InitStyler ==
  /\ preferences \in PreferenceMaps
  /\ dom \in Trees
  /\ LET eng == StylerNew(<<ForumStyle>>)
     IN /\ head = eng.sm.head
        /\ cssRules = eng.sm.cssRules
        /\ styleElement = eng.sm.styleElement
        /\ sheet = eng.sm.sheet
        /\ index = eng.index
  /\ pos = 0
  /\ thrown = FALSE
  /\ applies = 0
  /\ minted = <<>>
  /\ last = NoCallback

\* applyStyles is called: querySelectorAll, then forEach starts
ApplyStylesBegin ==
  /\ pos = 0
  /\ applies < MaxApplies
  /\ applies' = applies + 1
  /\ pos' = IF dom = <<>> THEN 0 ELSE 1
  /\ thrown' = FALSE
  /\ last' = NoCallback
  /\ UNCHANGED <<preferences, dom, head, cssRules, styleElement, sheet, index,
                 minted>>
  /\ UNCHANGED <<pageVars, optionsVars>>
  /\ UNCHANGED trackerVars

\* the forEach callback runs on the row at pos
ApplyStylesRow ==
  /\ pos \in 1..Len(dom)
  /\ LET r == RowCallback(preferences, dom[pos], Engine)
     IN /\ dom' = [dom EXCEPT ![pos] = r.row]
        /\ head' = r.eng.sm.head
        /\ cssRules' = r.eng.sm.cssRules
        /\ styleElement' = r.eng.sm.styleElement
        /\ sheet' = r.eng.sm.sheet
        /\ index' = r.eng.index
        /\ thrown' = r.thrown
        /\ pos' = ForEachNext(pos, Len(dom), r)
        /\ minted' = IF r.className # Undefined
                     THEN Append(minted, r.className) ELSE minted
        /\ last' = [pos |-> pos, before |-> dom[pos], indexBefore |-> index,
                    rulesBefore |-> cssRules, skipped |-> r.skipped,
                    thrown |-> r.thrown, className |-> r.className]
  /\ UNCHANGED <<preferences, applies>>
  /\ UNCHANGED <<pageVars, optionsVars>>
  /\ UNCHANGED trackerVars

\* ------------------------------------------------------------ OnlineTracker
\* a count: null, or a string given by its characters
Null == [null |-> TRUE, chars |-> <<>>]
Text(cs) == [null |-> FALSE, chars |-> cs]

Digits == {"0", "1", "2", "3", "4", "5", "6", "7", "8", "9"}

DigitValue(c) ==
  CASE c = "0" -> 0 [] c = "1" -> 1 [] c = "2" -> 2 [] c = "3" -> 3
    [] c = "4" -> 4 [] c = "5" -> 5 [] c = "6" -> 6 [] c = "7" -> 7
    [] c = "8" -> 8 [] c = "9" -> 9

RECURSIVE Decimal(_)
Decimal(cs) ==
  IF cs = <<>> THEN 0
  ELSE 10 * Decimal(SubSeq(cs, 1, Len(cs) - 1)) + DigitValue(cs[Len(cs)])

NaN == [nan |-> TRUE, value |-> 0]
Num(n) == [nan |-> FALSE, value |-> n]

\* ToNumber of a count, as the comparison count < 1 converts it: null and the
\* empty string are 0, a decimal numeral is its value, any other text is NaN
ToNumber(count) ==
  LET cs == Trim(count.chars)
  IN IF count.null \/ cs = <<>> THEN Num(0)
     ELSE IF Range(cs) \subseteq Digits THEN Num(Decimal(cs))
     ELSE IF Head(cs) = "-" /\ Len(cs) > 1 /\ Range(Tail(cs)) \subseteq Digits
     THEN Num(0 - Decimal(Tail(cs)))
     ELSE NaN

\* count < 1
LessThanOne(count) == LET n == ToNumber(count) IN ~n.nan /\ n.value < 1

\* whether a count is truthy
CountTruthy(count) == ~count.null /\ count.chars # <<>>

\* parseCount without the || 'X' at its end
ParseCountNoFallback(html) ==
  IF html.element THEN Text(Trim(html.text)) ELSE Null

\* OnlineTracker.parseCount; html is the fetched page: whether it holds the
\* element of NOTIFICATION_SELECTOR, and the element's text
ParseCount(html) ==
  LET text == IF html.element THEN Text(Trim(html.text)) ELSE Null
  IN IF CountTruthy(text) THEN text ELSE Text(<<"X">>)

\* OnlineTracker.fetchOnlineNotifications, given how the fetch ends
FetchOnlineNotifications(outcome) ==
  IF outcome.kind = "error" THEN Null
  ELSE IF ~outcome.ok THEN Null
  ELSE ParseCount(outcome.html)

\* updateBadge with the alert colour for every text
UpdateBadgeOneColor(count) ==
  LET text == IF LessThanOne(count) THEN ""
              ELSE IF CountTruthy(count) THEN Join(count.chars) ELSE "?"
  IN [text |-> text, background |-> "#d90000", textColor |-> "#fff"]

\* updateBadge without the test count < 1
UpdateBadgeNoZeroTest(count) ==
  LET text == IF CountTruthy(count) THEN Join(count.chars) ELSE "?"
      color == IF text = "X" THEN "#555" ELSE "#d90000"
  IN [text |-> text, background |-> color, textColor |-> "#fff"]

\* OnlineTracker.updateBadge: the badge the three set calls leave
UpdateBadge(count) ==
  LET text == IF LessThanOne(count) THEN ""
              ELSE IF CountTruthy(count) THEN Join(count.chars) ELSE "?"
      color == IF text = "X" THEN "#555" ELSE "#d90000"
  IN [text |-> text, background |-> color, textColor |-> "#fff"]

\* OnlineTracker.refresh from the end of its fetch on: the badge it leaves
Refresh(bdg, outcome) ==
  LET count == FetchOnlineNotifications(outcome)
  IN IF CountTruthy(count) THEN UpdateBadge(count) ELSE bdg

\* the badge before any setBadge call
NoBadge == [text |-> "", background |-> Undefined, textColor |-> Undefined]

\* pages the forum serves: no count element (no session), or one with a text
CountTexts == {<<"0">>, <<"\n", "1", "2", " ">>, <<>>}
Pages ==
  {[element |-> FALSE, text |-> <<>>]}
  \cup {[element |-> TRUE, text |-> t] : t \in CountTexts}

\* how a fetch ends: a transport error, a response that is not ok (whatever
\* its page), or a response that is ok
FetchOutcomes ==
  {[kind |-> "error", ok |-> FALSE, html |-> [element |-> FALSE, text |-> <<>>]],
   [kind |-> "response", ok |-> FALSE,
    html |-> [element |-> TRUE, text |-> <<"\n", "1", "2", " ">>]]}
  \cup {[kind |-> "response", ok |-> TRUE, html |-> h] : h \in Pages}

\* a value that may be missing: <<>> or <<v>>
None == <<>>
Some(v) == <<v>>

DefaultRefreshRate == 5
RateValues == {5, 15}

NoAlarm == [exists |-> FALSE, period |-> None]

\* createOrUpdateAlarm that also starts a refresh
CreateOrUpdateAlarmThenRefresh(refreshRate) ==
  [calls |-> <<[op |-> "clear", name |-> "autoRefresh", period |-> None],
               [op |-> "create", name |-> "autoRefresh", period |-> refreshRate]>>,
   refreshes |-> 1]

\* createOrUpdateAlarm that creates the alarm before it clears
CreateOrUpdateAlarmCreateFirst(refreshRate) ==
  [calls |-> <<[op |-> "create", name |-> "autoRefresh", period |-> refreshRate],
               [op |-> "clear", name |-> "autoRefresh", period |-> None]>>,
   refreshes |-> 0]

\* OnlineTracker.createOrUpdateAlarm: the browser.alarms calls it issues and
\* the refreshes it starts
CreateOrUpdateAlarm(refreshRate) ==
  [calls |-> <<[op |-> "clear", name |-> "autoRefresh", period |-> None],
               [op |-> "create", name |-> "autoRefresh", period |-> refreshRate]>>,
   refreshes |-> 0]

NoEffect == [calls |-> <<>>, refreshes |-> 0]

\* the storage.sync.onChanged listener of init
OnChangedListener(change) ==
  IF change.refreshRate THEN CreateOrUpdateAlarm(change.newValue) ELSE NoEffect

\* the then-callback without the ?? 5
OnPreferencesNoDefault(prefs) == CreateOrUpdateAlarm(prefs.refreshRate)

\* the then-callback of storage.sync.get() in init
OnPreferences(prefs) ==
  CreateOrUpdateAlarm(IF prefs.refreshRate # None THEN prefs.refreshRate
                      ELSE Some(DefaultRefreshRate))

\* the host carries out one browser.alarms call
AlarmAfter(a, call) ==
  IF call.op = "clear" THEN NoAlarm
  ELSE [exists |-> TRUE, period |-> call.period]

\* ---------------------------------------------- background context: actions
CASUS_NO_URL == "https://www.casusno.fr/"
UNREAD_POSTS_URL == "https://www.casusno.fr/search.php?search_id=unreadposts"

\* URLs of tabs, in chunks: on the forum, elsewhere, elsewhere with the
\* forum's URL in the query
TabUrls ==
  {<<CASUS_NO_URL, "viewforum.php">>,
   <<"https://example.org/">>,
   <<"https://example.org/?next=", CASUS_NO_URL>>}

\* tab.url.includes(CASUS_NO_URL)
Includes(url, part) == part \in Range(url)

\* the tabs.onUpdated listener of init: the refreshes it starts
OnUpdatedListener(status, url) ==
  IF status = "complete" /\ Includes(url, CASUS_NO_URL) THEN 1 ELSE 0

\* the alarms.onAlarm listener: the refreshes it starts
OnAlarmListener(name) == IF name = "autoRefresh" THEN 1 ELSE 0

\* the browserAction.onClicked listener: refreshes started, tabs created
OnClickedListener == [refreshes |-> 1, tabs |-> <<UNREAD_POSTS_URL>>]

NoChange == [refreshRate |-> FALSE, oldValue |-> None, newValue |-> None]
NoOutcome == [kind |-> "none", ok |-> FALSE, html |-> [element |-> FALSE, text |-> <<>>]]

\* what a handler found when it started
Event(kind, outcome, change) ==
  [kind |-> kind, outcome |-> outcome, change |-> change,
   badgeBefore |-> badge, inflightBefore |-> inflight,
   callsBefore |-> alarmCalls, tabsBefore |-> tabsOpened,
   alarmBefore |-> alarm]

\* new OnlineTracker(): init() has started the first refresh, asked for the
\* preferences and registered its listeners
InitTracker ==
  /\ badge = NoBadge
  /\ inflight = 1
  /\ store \in {None} \cup {Some(r) : r \in RateValues}
  /\ prefsRead = FALSE
  /\ changes = <<>>
  /\ alarmCalls = <<>>
  /\ alarm = NoAlarm
  /\ tabsOpened = 0
  /\ lastEvent = [kind |-> "startup", outcome |-> NoOutcome, change |-> NoChange,
                  badgeBefore |-> NoBadge, inflightBefore |-> 0,
                  callsBefore |-> <<>>, tabsBefore |-> 0,
                  alarmBefore |-> NoAlarm]

\* the content context of a tab that shows no forum page
StylerIdle ==
  /\ preferences = [topics |-> <<>>, modes |-> <<>>, icons |-> <<>>, colors |-> <<>>]
  /\ dom = <<>>
  /\ head = <<ForumStyle>>
  /\ cssRules = <<>>
  /\ styleElement = FALSE
  /\ sheet = <<>>
  /\ index = 0
  /\ pos = 0
  /\ thrown = FALSE
  /\ applies = 0
  /\ minted = <<>>
  /\ last = NoCallback

\* no StyleManager call made apart from the engine's, no DisplayManager
NoCall ==
  [op |-> "none", rulesBefore |-> <<>>, sheetBefore |-> <<>>,
   headBefore |-> <<>>, thrown |-> FALSE]
NoMessage == [action |-> "none", phaseBefore |-> "none", loadsBefore |-> 0]

\* the document of the tab was loaded by no message and has read nothing yet
NoRead == [by |-> 0, version |-> 0]

\* no settings page is open
OptionsIdle ==
  /\ writes = <<>>
  /\ handlers = <<>>
  /\ storeOps = {}
  /\ outbox = <<>>
  /\ tabRead = NoRead

PageIdle ==
  /\ OptionsIdle
  /\ lastCall = NoCall
  /\ phase = "none"
  /\ page = <<>>
  /\ loads = 0
  /\ passes = 0
  /\ lastMessage = NoMessage

\* the background context before any extension is loaded, for the content runs
TrackerIdle ==
  /\ badge = NoBadge
  /\ inflight = 0
  /\ store = None
  /\ prefsRead = FALSE
  /\ changes = <<>>
  /\ alarmCalls = <<>>
  /\ alarm = NoAlarm
  /\ tabsOpened = 0
  /\ lastEvent = [kind |-> "none", outcome |-> NoOutcome, change |-> NoChange,
                  badgeBefore |-> NoBadge, inflightBefore |-> 0,
                  callsBefore |-> <<>>, tabsBefore |-> 0,
                  alarmBefore |-> NoAlarm]

\* the fetch of a refresh in flight ends, and refresh runs to its end
RefreshCompletes ==
  /\ inflight > 0
  /\ \E outcome \in FetchOutcomes :
       /\ badge' = Refresh(badge, outcome)
       /\ lastEvent' = Event("refreshDone", outcome, NoChange)
  /\ inflight' = inflight - 1
  /\ UNCHANGED <<store, prefsRead, changes, alarmCalls, alarm, tabsOpened>>
  /\ UNCHANGED contentVars

\* storage.sync.get() of init resolves
PreferencesResolve ==
  /\ ~prefsRead
  /\ Len(alarmCalls) + 2 <= MaxAlarmCalls
  /\ LET e == OnPreferences([refreshRate |-> store])
     IN /\ alarmCalls' = alarmCalls \o e.calls
        /\ inflight' = inflight + e.refreshes
  /\ prefsRead' = TRUE
  /\ lastEvent' = Event("preferences", NoOutcome, NoChange)
  /\ UNCHANGED <<badge, store, changes, alarm, tabsOpened>>
  /\ UNCHANGED contentVars

\* the user clicks the extension's icon
Click ==
  /\ inflight < MaxInflight
  /\ tabsOpened < MaxTabs
  /\ inflight' = inflight + OnClickedListener.refreshes
  /\ tabsOpened' = tabsOpened + Len(OnClickedListener.tabs)
  /\ lastEvent' = Event("click", NoOutcome, NoChange)
  /\ UNCHANGED <<badge, store, prefsRead, changes, alarmCalls, alarm>>
  /\ UNCHANGED contentVars

\* a tab reports an update
TabUpdated ==
  /\ inflight < MaxInflight
  /\ \E status \in {"loading", "complete"}, url \in TabUrls :
       /\ inflight' = inflight + OnUpdatedListener(status, url)
       /\ lastEvent' = [Event("tabUpdated", NoOutcome, NoChange) EXCEPT
                          !.outcome.kind = status, !.outcome.html.text = url]
  /\ UNCHANGED <<badge, store, prefsRead, changes, alarmCalls, alarm, tabsOpened>>
  /\ UNCHANGED contentVars

\* the autoRefresh alarm fires; the onAlarm listener exists once the
\* preferences were read; an alarm without a period fires once
AlarmFires ==
  /\ alarm.exists
  /\ inflight < MaxInflight
  /\ inflight' = inflight + (IF prefsRead THEN OnAlarmListener("autoRefresh") ELSE 0)
  /\ alarm' = IF alarm.period = None THEN NoAlarm ELSE alarm
  /\ lastEvent' = Event("alarm", NoOutcome, NoChange)
  /\ UNCHANGED <<badge, store, prefsRead, changes, alarmCalls, tabsOpened>>
  /\ UNCHANGED contentVars

\* the settings page saves: storage.sync.set; the change reports refreshRate
\* when its value changed, and may report it when it did not
StorageSet ==
  /\ Len(changes) < MaxChanges
  /\ \E r \in RateValues, same \in BOOLEAN :
       /\ store' = Some(r)
       /\ changes' = Append(changes,
            [refreshRate |-> (store # Some(r)) \/ same,
             oldValue |-> store, newValue |-> Some(r)])
  /\ lastEvent' = Event("set", NoOutcome, NoChange)
  /\ UNCHANGED <<badge, inflight, prefsRead, alarmCalls, alarm, tabsOpened>>
  /\ UNCHANGED contentVars

\* the settings page resets: storage.sync.clear
StorageClear ==
  /\ Len(changes) < MaxChanges
  /\ store' = None
  /\ changes' = Append(changes,
       [refreshRate |-> store # None, oldValue |-> store, newValue |-> None])
  /\ lastEvent' = Event("clear", NoOutcome, NoChange)
  /\ UNCHANGED <<badge, inflight, prefsRead, alarmCalls, alarm, tabsOpened>>
  /\ UNCHANGED contentVars

\* a storage.sync.onChanged event reaches the listener of init
OnChanged ==
  /\ changes # <<>>
  /\ Len(alarmCalls) + 2 <= MaxAlarmCalls
  /\ LET e == OnChangedListener(Head(changes))
     IN /\ alarmCalls' = alarmCalls \o e.calls
        /\ inflight' = inflight + e.refreshes
  /\ changes' = Tail(changes)
  /\ lastEvent' = Event("onChanged", NoOutcome, Head(changes))
  /\ UNCHANGED <<badge, store, prefsRead, alarm, tabsOpened>>
  /\ UNCHANGED contentVars

\* the host carries out the oldest browser.alarms call
AlarmHost ==
  /\ alarmCalls # <<>>
  /\ alarm' = AlarmAfter(alarm, Head(alarmCalls))
  /\ alarmCalls' = Tail(alarmCalls)
  /\ lastEvent' = Event("alarmHost", NoOutcome, NoChange)
  /\ UNCHANGED <<badge, inflight, store, prefsRead, changes, tabsOpened>>
  /\ UNCHANGED contentVars

\* ------------------------------------------- StyleManager used on its own
\* rules given to a StyleManager: the base rule, a rule of addClass, a rule
\* insertRule rejects
RuleInputs ==
  {BASE, ".casus-full-line-0 { background-color: #e4dcbd; }", MalformedRule}

\* what a call found when it started
Call(op) ==
  [op |-> op, rulesBefore |-> cssRules, sheetBefore |-> sheet,
   headBefore |-> head, thrown |-> thrown']

\* new StyleManager(rules), with up to two rules
Construct ==
  /\ lastCall.op = "none"
  /\ \E rules \in UNION {[1..n -> RuleInputs] : n \in 0..2} :
       \E sm \in {StyleManagerNew(rules, head)} :
         /\ cssRules' = sm.cssRules
         /\ styleElement' = sm.styleElement
         /\ sheet' = sm.sheet
         /\ head' = sm.head
  /\ thrown' = FALSE
  /\ lastCall' = Call("new")
  /\ UNCHANGED <<preferences, dom, index, pos, applies, minted, last>>
  /\ UNCHANGED <<phase, page, loads, passes, lastMessage, optionsVars>>
  /\ UNCHANGED trackerVars

\* insertCSSRules() is called
InsertCSSRulesCall ==
  /\ lastCall.op # "none"
  /\ \E sm \in {InsertCSSRules(Engine.sm)} :
       /\ cssRules' = sm.cssRules
       /\ styleElement' = sm.styleElement
       /\ sheet' = sm.sheet
       /\ head' = sm.head
       /\ thrown' = Rejects(sm.cssRules)
  /\ lastCall' = Call("insertCSSRules")
  /\ UNCHANGED <<preferences, dom, index, pos, applies, minted, last>>
  /\ UNCHANGED <<phase, page, loads, passes, lastMessage, optionsVars>>
  /\ UNCHANGED trackerVars

\* addRule(rule) is called
AddRuleCall ==
  /\ lastCall.op # "none"
  /\ Len(cssRules) < MaxRules
  /\ \E rule \in RuleInputs :
       \E sm \in {AddRule(Engine.sm, rule)} :
         /\ cssRules' = sm.cssRules
         /\ styleElement' = sm.styleElement
         /\ sheet' = sm.sheet
         /\ head' = sm.head
         /\ thrown' = Rejects(sm.cssRules)
  /\ lastCall' = Call("addRule")
  /\ UNCHANGED <<preferences, dom, index, pos, applies, minted, last>>
  /\ UNCHANGED <<phase, page, loads, passes, lastMessage, optionsVars>>
  /\ UNCHANGED trackerVars

\* ------------------------------------------------------------ DisplayManager
\* styler.applyStyles() as one call: the forEach from row i on
\* (the callback's result and the pass's state are bound as values)
RECURSIVE ApplyStylesFrom(_, _)
ApplyStylesFrom(prefs, st) ==
  IF st.i > Len(st.rows)
  THEN [rows |-> st.rows, eng |-> st.eng, thrown |-> FALSE,
        minted |-> st.minted]
  ELSE CHOOSE result \in
         {IF ForEachNext(st.i, Len(st.rows), r) = 0
          THEN [rows |-> [st.rows EXCEPT ![st.i] = r.row], eng |-> r.eng,
                thrown |-> r.thrown,
                minted |-> IF r.className # Undefined
                           THEN Append(st.minted, r.className)
                           ELSE st.minted]
          ELSE CHOOSE rest \in
                 {ApplyStylesFrom(prefs, next) :
                    next \in {[rows |-> [st.rows EXCEPT ![st.i] = r.row],
                               i |-> st.i + 1, eng |-> r.eng,
                               minted |-> IF r.className # Undefined
                                          THEN Append(st.minted, r.className)
                                          ELSE st.minted]}} : TRUE
          : r \in {RowCallback(prefs, st.rows[st.i], st.eng)}} : TRUE

ApplyStyles(prefs, rows, eng) ==
  CHOOSE result \in
    {ApplyStylesFrom(prefs, st) :
       st \in {[rows |-> rows, i |-> 1, eng |-> eng, minted |-> <<>>]}} : TRUE

\* DisplayManager.apply after the await: the styler is made and applyStyles
\* called; the message listener is registered unless that threw
Apply(prefs, rows, hd) ==
  CHOOSE result \in
    {[rows |-> a.rows, eng |-> a.eng, thrown |-> a.thrown,
      minted |-> a.minted, listener |-> ~a.thrown] :
       a \in {ApplyStyles(prefs, rows, eng) : eng \in {StylerNew(hd)}}} : TRUE

\* a listener that styles again in place of reloading
OnMessageListenerRestyles(message) ==
  [reload |-> FALSE, restyle |-> message.action = "updatePreferences"]

\* the runtime.onMessage listener of apply
OnMessageListener(message) ==
  [reload |-> message.action = "updatePreferences", restyle |-> FALSE]

\* a message that finds no listener
NoReaction == [reload |-> FALSE, restyle |-> FALSE]

NoPreferences ==
  [topics |-> <<>>, modes |-> <<>>, icons |-> <<>>, colors |-> <<>>]

\* what storage.sync.get() may resolve to in a tab: the preferences for
\* Rumeurs as the settings page saves them (no icons), or anything else stored
\* as visibility and mode
StoredPreferences ==
  {p \in PreferenceMaps :
     /\ p.icons = <<>>
     /\ p.colors = "Rumeurs" :> "#e4dcbd"
     /\ "Autre" \notin DOMAIN p.topics}

\* the document is loaded in the tab and the content script has started:
\* apply() waits for storage.sync.get()
DocumentLoaded ==
  /\ dom = page
  /\ head = <<ForumStyle>>
  /\ preferences = NoPreferences
  /\ cssRules = <<>>
  /\ styleElement = FALSE
  /\ sheet = <<>>
  /\ index = 0
  /\ pos = 0
  /\ thrown = FALSE
  /\ applies = 0
  /\ minted = <<>>
  /\ last = NoCallback
  /\ lastCall = NoCall
  /\ phase = "reading"
  /\ passes = 0

InitPage ==
  /\ page \in Trees
  /\ DocumentLoaded
  /\ loads = 1
  /\ lastMessage = NoMessage

\* storage.sync.get() resolves and apply goes on to its end
GetResolves ==
  /\ phase = "reading"
  /\ \E prefs \in StoredPreferences :
       \E a \in {Apply(prefs, dom, head)} :
          /\ preferences' = prefs
          /\ dom' = a.rows
          /\ head' = a.eng.sm.head
          /\ cssRules' = a.eng.sm.cssRules
          /\ styleElement' = a.eng.sm.styleElement
          /\ sheet' = a.eng.sm.sheet
          /\ index' = a.eng.index
          /\ thrown' = a.thrown
          /\ minted' = a.minted
          /\ phase' = IF a.listener THEN "listening" ELSE "failed"
  /\ applies' = applies + 1
  /\ passes' = passes + 1
  /\ UNCHANGED <<pos, last, lastCall, page, loads, lastMessage>>
  /\ UNCHANGED <<optionsVars, trackerVars>>

\* storage.sync.get() rejects: apply logs the error and ends
GetRejects ==
  /\ phase = "reading"
  /\ phase' = "failed"
  /\ UNCHANGED <<stylerVars, lastCall, page, loads, passes, lastMessage>>
  /\ UNCHANGED <<optionsVars, trackerVars>>

\* tabs.sendMessage reaches the tab
MessageDelivered ==
  \E action \in {"updatePreferences", "other"} :
    LET e == IF phase = "listening"
             THEN OnMessageListener([action |-> action]) ELSE NoReaction
    IN /\ lastMessage' = [action |-> action, phaseBefore |-> phase,
                          loadsBefore |-> loads]
       /\ IF e.reload
          THEN /\ loads < MaxLoads
               /\ loads' = loads + 1
               /\ dom' = page
               /\ head' = <<ForumStyle>>
               /\ preferences' = NoPreferences
               /\ cssRules' = <<>>
               /\ styleElement' = FALSE
               /\ sheet' = <<>>
               /\ index' = 0
               /\ thrown' = FALSE
               /\ applies' = 0
               /\ minted' = <<>>
               /\ phase' = "reading"
               /\ passes' = 0
               /\ UNCHANGED <<pos, last, lastCall, page>>
          ELSE IF e.restyle
          THEN /\ applies < MaxApplies
               /\ \E a \in {ApplyStyles(preferences, dom, Engine)} :
                     /\ dom' = a.rows
                     /\ head' = a.eng.sm.head
                     /\ cssRules' = a.eng.sm.cssRules
                     /\ styleElement' = a.eng.sm.styleElement
                     /\ sheet' = a.eng.sm.sheet
                     /\ index' = a.eng.index
                     /\ thrown' = a.thrown
                     /\ minted' = minted \o a.minted
               /\ applies' = applies + 1
               /\ passes' = passes + 1
               /\ UNCHANGED <<preferences, pos, last, lastCall, phase, page,
                              loads>>
          ELSE UNCHANGED <<stylerVars, lastCall, phase, page, loads, passes>>
       /\ UNCHANGED <<optionsVars, trackerVars>>

\* ------------------------------------------------------------ settings page
\* what the form holds for the topic Rumeurs when save is clicked
Forms ==
  {[value |-> v, color |-> "#e4dcbd", mode |-> "full-line"] :
     v \in {"hidden", "highlight"}}

\* collectPreferences: the value of each topic select; its colour and mode
\* only when the value is highlight; no icons. refreshRate is the background
\* context's concern (StorageSet)
CollectPreferences(form) ==
  [topics |-> "Rumeurs" :> form.value,
   colors |-> IF form.value = "highlight"
              THEN "Rumeurs" :> form.color ELSE <<>>,
   modes |-> IF form.value = "highlight"
             THEN "Rumeurs" :> form.mode ELSE <<>>]

\* what storage.sync holds now
StoreContent == writes[Len(writes)]

\* storage.sync.set replaces the keys it is given and keeps the others
StorageSyncSet(content, items) ==
  [content EXCEPT !.topics = items.topics, !.colors = items.colors,
                  !.modes = items.modes]

\* storage.sync.clear leaves nothing: get() resolves to {}
StorageSyncClear == NoPreferences

StoreAfter(op, content) ==
  IF op.kind = "set" THEN StorageSyncSet(content, op.value)
  ELSE StorageSyncClear

\* the save handler up to its first await, were set() not awaited
SaveHandlerNoAwait(prefs) ==
  [kind |-> "save", op |-> "set", value |-> prefs, step |-> "querying"]

\* the save handler up to its first await: it calls storage.sync.set with
\* the collected preferences and waits for it
SaveHandler(prefs) ==
  [kind |-> "save", op |-> "set", value |-> prefs, step |-> "storing"]

\* the reset handler up to its first await: it calls storage.sync.clear and
\* waits for it
ResetHandler ==
  [kind |-> "reset", op |-> "clear", value |-> NoPreferences,
   step |-> "storing"]

\* a handler that has just started: its store call has not settled, it has
\* sent nothing
Started(h) ==
  [kind |-> h.kind, value |-> h.value, step |-> h.step,
   outcome |-> "pending", wv |-> 0, sent |-> 0]

\* click on save
SaveClicked ==
  /\ Len(handlers) < MaxClicks
  /\ \E form \in Forms :
       \E h \in {SaveHandler(CollectPreferences(form))} :
          /\ handlers' = Append(handlers, Started(h))
          /\ storeOps' = storeOps \cup {[id |-> Len(handlers) + 1,
                                         kind |-> h.op, value |-> h.value]}
  /\ UNCHANGED <<writes, outbox, tabRead>>
  /\ UNCHANGED <<stylerVars, pageVars, trackerVars>>

\* click on reset
ResetClicked ==
  /\ Len(handlers) < MaxClicks
  /\ \E h \in {ResetHandler} :
       /\ handlers' = Append(handlers, Started(h))
       /\ storeOps' = storeOps \cup {[id |-> Len(handlers) + 1,
                                      kind |-> h.op, value |-> h.value]}
  /\ UNCHANGED <<writes, outbox, tabRead>>
  /\ UNCHANGED <<stylerVars, pageVars, trackerVars>>

\* the handler when its store call settles: a handler waiting for it goes on
\* to tabs.query, or to its catch when the call was rejected. outcome and wv
\* record how the call ended and which content of the store it made
AfterStore(h, ok, version) ==
  LET g == [h EXCEPT !.outcome = IF ok THEN "resolved" ELSE "rejected",
                     !.wv = IF ok THEN version ELSE 0]
  IN IF h.step = "storing"
     THEN [g EXCEPT !.step = IF ok THEN "querying" ELSE "caught"]
     ELSE g

\* a storage.sync.set or clear call of the settings page settles
StoreSettles ==
  \E op \in storeOps, ok \in BOOLEAN :
    /\ storeOps' = storeOps \ {op}
    /\ writes' = IF ok THEN Append(writes, StoreAfter(op, StoreContent))
                 ELSE writes
    /\ handlers' = [handlers EXCEPT
                      ![op.id] = AfterStore(@, ok, Len(writes) + 1)]
    /\ UNCHANGED <<outbox, tabRead>>
    /\ UNCHANGED <<stylerVars, pageVars, trackerVars>>

\* the handler when tabs.query settles: one message to the forum tab, or
\* the catch when the query was rejected
AfterQuery(h, ok) ==
  IF ok THEN [h EXCEPT !.step = "done", !.sent = 1]
  ELSE [h EXCEPT !.step = "caught"]

\* window.location.reload() of the settings page ends the handlers that
\* are still waiting
Unload(h) ==
  IF h.step \in {"storing", "querying"} THEN [h EXCEPT !.step = "unloaded"]
  ELSE h

\* tabs.query of a handler settles; reset then reloads the settings page
QueryResolves ==
  \E id \in DOMAIN handlers, ok \in BOOLEAN :
    /\ handlers[id].step = "querying"
    /\ \E h \in {AfterQuery(handlers[id], ok)} :
         /\ outbox' = IF h.sent > 0
                      THEN Append(outbox, [action |-> "updatePreferences",
                                           id |-> id])
                      ELSE outbox
         /\ handlers' = IF h.step = "done" /\ h.kind = "reset"
                        THEN [i \in DOMAIN handlers |->
                                IF i = id THEN h ELSE Unload(handlers[i])]
                        ELSE [handlers EXCEPT ![id] = h]
    /\ UNCHANGED <<writes, storeOps, tabRead>>
    /\ UNCHANGED <<stylerVars, pageVars, trackerVars>>

\* a message of the settings page reaches the tab
TabReceives ==
  /\ outbox # <<>>
  /\ outbox' = Tail(outbox)
  /\ LET m == Head(outbox)
         e == IF phase = "listening"
              THEN OnMessageListener([action |-> m.action]) ELSE NoReaction
     IN /\ lastMessage' = [action |-> m.action, phaseBefore |-> phase,
                           loadsBefore |-> loads]
        /\ IF e.reload
           THEN /\ loads' = loads + 1
                /\ dom' = page
                /\ head' = <<ForumStyle>>
                /\ preferences' = NoPreferences
                /\ cssRules' = <<>>
                /\ styleElement' = FALSE
                /\ sheet' = <<>>
                /\ index' = 0
                /\ thrown' = FALSE
                /\ applies' = 0
                /\ minted' = <<>>
                /\ phase' = "reading"
                /\ passes' = 0
                /\ tabRead' = [by |-> m.id, version |-> 0]
                /\ UNCHANGED <<pos, last, lastCall, page>>
           ELSE UNCHANGED <<stylerVars, lastCall, phase, page, loads, passes,
                            tabRead>>
  /\ UNCHANGED <<writes, handlers, storeOps>>
  /\ UNCHANGED trackerVars

\* storage.sync.get() of the tab resolves with what the store holds, and
\* apply goes on to its end
TabReads ==
  /\ phase = "reading"
  /\ \E a \in {Apply(StoreContent, dom, head)} :
       /\ preferences' = StoreContent
       /\ dom' = a.rows
       /\ head' = a.eng.sm.head
       /\ cssRules' = a.eng.sm.cssRules
       /\ styleElement' = a.eng.sm.styleElement
       /\ sheet' = a.eng.sm.sheet
       /\ index' = a.eng.index
       /\ thrown' = a.thrown
       /\ minted' = a.minted
       /\ phase' = IF a.listener THEN "listening" ELSE "failed"
  /\ applies' = applies + 1
  /\ passes' = passes + 1
  /\ tabRead' = [tabRead EXCEPT !.version = Len(writes)]
  /\ UNCHANGED <<pos, last, lastCall, page, loads, lastMessage>>
  /\ UNCHANGED <<writes, handlers, storeOps, outbox>>
  /\ UNCHANGED trackerVars

\* a forum tab whose content script starts, the settings page open beside
\* it, nothing saved yet
InitSettings ==
  /\ page \in {t \in Trees : Len(t) <= 1}
  /\ DocumentLoaded
  /\ loads = 1
  /\ lastMessage = NoMessage
  /\ writes = <<NoPreferences>>
  /\ handlers = <<>>
  /\ storeOps = {}
  /\ outbox = <<>>
  /\ tabRead = NoRead
  /\ TrackerIdle

\* ----------------------------------------------------------- specifications
NextStyler == ApplyStylesBegin \/ ApplyStylesRow

\* one PreferenceStyler instance on one document
\* one PreferenceStyler instance; no background context
InitContent == InitStyler /\ PageIdle /\ TrackerIdle

SpecStyler == InitContent /\ [][NextStyler]_vars

NextTracker ==
  \/ RefreshCompletes
  \/ PreferencesResolve
  \/ Click
  \/ TabUpdated
  \/ AlarmFires
  \/ StorageSet
  \/ StorageClear
  \/ OnChanged
  \/ AlarmHost

\* the background context from its startup on
\* the background context at startup; no content context
InitBackground == InitTracker /\ StylerIdle /\ PageIdle

SpecTracker == InitBackground /\ [][NextTracker]_vars

NextRules == Construct \/ InsertCSSRulesCall \/ AddRuleCall

\* a document in which a StyleManager is made and used
InitRules == StylerIdle /\ PageIdle /\ TrackerIdle

SpecRules == InitRules /\ [][NextRules]_vars

NextPage == GetResolves \/ GetRejects \/ MessageDelivered

\* one tab on a forum page, its content script from the start of apply on
InitDisplay == InitPage /\ OptionsIdle /\ TrackerIdle

SpecDisplay == InitDisplay /\ [][NextPage]_vars

NextOptions ==
  \/ SaveClicked
  \/ ResetClicked
  \/ StoreSettles
  \/ QueryResolves
  \/ TabReceives
  \/ TabReads
  \/ GetRejects

\* the settings page and one forum tab
SpecOptions == InitSettings /\ [][NextOptions]_vars

\* ------------------------------------------------------------------- claims
\* the rules addClass can build for a class name
RulesOf(className) ==
  {RuleText(m, className, c) : m \in ModeValues, c \in ColorValues \cup {Undefined}}

\* C1: the class names addClass built for this instance, over all applyStyles
\* calls, are pairwise distinct, and the tracked rules are the base rule
\* followed by one rule per addClass call, each the rule of its class name
C1_MintedNamesDistinct ==
  /\ \A i, j \in 1..Len(minted) : i # j => minted[i] # minted[j]
  /\ Len(cssRules) = Len(minted) + 1
  /\ cssRules[1] = BASE
  /\ \A k \in 1..Len(minted) : cssRules[k + 1] \in RulesOf(minted[k])

\* C1 witness: the same row was highlighted by two applyStyles calls
C1_Witness ==
  /\ applies = 2
  /\ pos = 0
  /\ Len(dom) = 1
  /\ Len(minted) = 2

\* C2: after a callback that called addRule, the sheet of the style element
\* holds the tracked rules in their order, which are the rules tracked before
\* followed by the rule of the new class; the style element is in the head once
C2_SheetIsTrackedRules ==
  last.className # Undefined =>
    /\ styleElement
    /\ Len(SelectSeq(head, LAMBDA n : n = OwnStyle)) = 1
    /\ sheet = cssRules
    /\ Len(cssRules) = Len(last.rulesBefore) + 1
    /\ SubSeq(cssRules, 1, Len(last.rulesBefore)) = last.rulesBefore
    /\ cssRules[Len(cssRules)] \in RulesOf(last.className)

\* C2 witness: addRule returned with two rules installed before it
C2_Witness ==
  /\ last.className # Undefined
  /\ Len(last.rulesBefore) = 2
  /\ Len(sheet) = 3

\* the canonical unknown count of parseCount
UnknownCount == Text(<<"X">>)

\* C3, as claimed: a refresh whose fetch failed, or whose response was not a
\* success, leaves the badge in the unknown state
C3_FailureShowsUnknown ==
  (/\ lastEvent.kind = "refreshDone"
   /\ (lastEvent.outcome.kind = "error" \/ ~lastEvent.outcome.ok))
  => badge = UpdateBadge(UnknownCount)

\* C4: the onChanged listener, given a change of refreshRate from a to b,
\* issues the clear and one create of autoRefresh with period b and nothing
\* else, and starts no refresh
C4_RescheduleOnce ==
  (/\ lastEvent.kind = "onChanged"
   /\ lastEvent.change.refreshRate
   /\ lastEvent.change.oldValue # None
   /\ lastEvent.change.newValue # None
   /\ lastEvent.change.oldValue # lastEvent.change.newValue)
  => /\ alarmCalls = lastEvent.callsBefore \o
          <<[op |-> "clear", name |-> "autoRefresh", period |-> None],
            [op |-> "create", name |-> "autoRefresh",
             period |-> lastEvent.change.newValue]>>
     /\ inflight = lastEvent.inflightBefore
     /\ badge = lastEvent.badgeBefore

\* C4 witness: the change of refreshRate from 5 to 15 was delivered while a
\* refresh was in flight
C4_Witness ==
  /\ lastEvent.kind = "onChanged"
  /\ lastEvent.change.refreshRate
  /\ lastEvent.change.oldValue = Some(5)
  /\ lastEvent.change.newValue = Some(15)
  /\ inflight = 1

\* the last callback ran on a row it did not skip
Processed == last.pos > 0 /\ ~Skipped(last.before)

\* the preferences of the row of the last callback
LastTopic == Lookup(preferences.topics, ThemeName(last.before))
LastMode == Lookup(preferences.modes, ThemeName(last.before))
LastIcon == Lookup(preferences.icons, ThemeName(last.before))
LastColor == Lookup(preferences.colors, ThemeName(last.before))

\* C5, as claimed: a row that is visible, or has no entry, and has no icon
\* override comes out of the callback as it went in, and nothing is minted
C5_VisibleRowPristine ==
  (/\ Processed
   /\ LastTopic \in {"visible", Undefined}
   /\ ~Truthy(LastIcon))
  => /\ dom[last.pos] = last.before
     /\ last.className = Undefined
     /\ index = last.indexBefore
     /\ cssRules = last.rulesBefore

\* C6: a row without box, title or topic link comes out of the callback as it
\* went in, nothing is minted, nothing is thrown, and forEach goes on with the
\* next row
C6_PartialRowSkipped ==
  (/\ last.pos > 0
   /\ (~last.before.box \/ ~last.before.title \/ ~last.before.link))
  => /\ dom[last.pos] = last.before
     /\ last.className = Undefined
     /\ index = last.indexBefore
     /\ cssRules = last.rulesBefore
     /\ ~thrown
     /\ (last.pos < Len(dom) => pos = last.pos + 1)

\* C6 witness: the first of two rows has no title and was skipped, the second
\* row is next
C6_Witness ==
  /\ last.pos = 1
  /\ ~last.before.title
  /\ Len(dom) = 2
  /\ pos = 2

\* C7: a hidden row carries casus-no-post after the callback; the callback
\* mints nothing: counter and rules are as before, and the rule of
\* casus-no-post is the first rule and occurs once
C7_HiddenRowMuted ==
  (Processed /\ LastTopic = "hidden")
  => /\ "casus-no-post" \in Range(dom[last.pos].rowClasses)
     /\ last.className = Undefined
     /\ index = last.indexBefore
     /\ cssRules = last.rulesBefore
     /\ cssRules[1] = BASE
     /\ Len(SelectSeq(cssRules, LAMBDA r : r = BASE)) = 1
     /\ sheet = cssRules

\* C7 witness: a hidden row was muted after a class had been minted
C7_Witness ==
  /\ Processed
  /\ LastTopic = "hidden"
  /\ last.indexBefore > 0
  /\ "casus-no-post" \in Range(dom[last.pos].rowClasses)

\* C8, as claimed: a highlighted row has its new class on the row and not on
\* the title for full-line, on the title and not on the row for any other mode
C8_ClassOnOneElement ==
  (Processed /\ LastTopic = "highlight")
  => /\ last.className # Undefined
     /\ IF LastMode = "full-line"
        THEN /\ last.className \in Range(dom[last.pos].rowClasses)
             /\ last.className \notin Range(dom[last.pos].titleClasses)
        ELSE /\ last.className \in Range(dom[last.pos].titleClasses)
             /\ last.className \notin Range(dom[last.pos].rowClasses)

\* the inline style of the icon of a highlighted row, by mode
StyleByMode(mode, color, before) ==
  CASE mode \in {"full-line", "highlight-title"} ->
         "color: " \o Str(color) \o "; " \o SHADOW
    [] mode = "color-title" -> "color: " \o Str(color) \o "; "
    [] OTHER -> before

WithoutOverride ==
  RowCallback([preferences EXCEPT !.icons = <<>>], last.before,
              [sm |-> [cssRules |-> last.rulesBefore, styleElement |-> TRUE,
                       sheet |-> last.rulesBefore, head |-> head],
               index |-> last.indexBefore])

\* C10: on a row whose topic has an icon override, the icon's fa-file is gone
\* and the override is there, whatever the visibility and the mode; row
\* classes, title classes, icon style, counter, rules and exception are those
\* of the same callback without the override
C10_IconOverride ==
  (Processed /\ Truthy(LastIcon))
  => /\ ((last.before.icon /\ ORIGINAL \in Range(last.before.iconClasses))
          => /\ LastIcon \in Range(dom[last.pos].iconClasses)
             /\ ORIGINAL \notin Range(dom[last.pos].iconClasses))
     /\ dom[last.pos].rowClasses = WithoutOverride.row.rowClasses
     /\ dom[last.pos].titleClasses = WithoutOverride.row.titleClasses
     /\ dom[last.pos].iconStyle = WithoutOverride.row.iconStyle
     /\ index = WithoutOverride.eng.index
     /\ cssRules = WithoutOverride.eng.sm.cssRules
     /\ sheet = WithoutOverride.eng.sm.sheet
     /\ last.className = WithoutOverride.className
     /\ last.thrown = WithoutOverride.thrown

\* C10 witness: the icon of a highlighted row of unrecognised mode was swapped
C10_Witness ==
  /\ Processed
  /\ LastTopic = "highlight"
  /\ LastMode = "bogus"
  /\ ORIGINAL \in Range(last.before.iconClasses)
  /\ "fa-star" \in Range(dom[last.pos].iconClasses)

\* C11: the rule a callback registered when it minted a class has the minted
\* class name as its selector and sets color to the topic's colour when the
\* mode is color-title, background-color to it for every other mode
C11_RuleByMode ==
  (Processed /\ last.className # Undefined)
  => /\ Len(cssRules) = Len(last.rulesBefore) + 1
     /\ SubSeq(cssRules, 1, Len(last.rulesBefore)) = last.rulesBefore
     /\ cssRules[Len(cssRules)] =
          IF LastMode = "color-title"
          THEN "." \o last.className \o " { color: " \o Str(LastColor) \o "; }"
          ELSE "." \o last.className \o " { background-color: "
               \o Str(LastColor) \o "; }"

\* C11 witness: a class was minted for a topic of mode color-title
C11_Witness ==
  /\ Processed
  /\ LastMode = "color-title"
  /\ last.className = "casus-color-title-0"
  /\ cssRules[Len(cssRules)] = ".casus-color-title-0 { color: #abcdef; }"

\* the preferences of the scenario: Rumeurs highlighted on the full line
ScenarioPreferences ==
  [topics |-> "Rumeurs" :> "highlight", modes |-> "Rumeurs" :> "full-line",
   icons |-> <<>>, colors |-> "Rumeurs" :> "#e4dcbd"]

\* the names a k-th minting (from 0) may give
NamesAt(k) == {"casus-" \o Str(m) \o "-" \o ToString(k) : m \in ModeValues}

\* C12: after applyStyles of a fresh engine with the scenario's preferences on
\* a tree of one row labelled Rumeurs, the rules are BASE and
\* .casus-full-line-0 { background-color: #e4dcbd; } and the row has the class
\* casus-full-line-0; and the k-th minting, from 0, is named casus-<mode>-<k>
C12_ScenarioFullLine ==
  /\ (/\ preferences = ScenarioPreferences
      /\ applies = 1 /\ pos = 0 /\ Len(dom) = 1
      /\ ~Skipped(dom[1]) /\ ThemeName(dom[1]) = "Rumeurs")
     => /\ cssRules = <<BASE, ".casus-full-line-0 { background-color: #e4dcbd; }">>
        /\ "casus-full-line-0" \in Range(dom[1].rowClasses)
  /\ \A k \in 1..Len(minted) : minted[k] \in NamesAt(k - 1)

\* the preferences with another mode and another colour for Rumeurs
OtherModeColor(m, c) ==
  [preferences EXCEPT !.modes = Entry("Rumeurs", m),
                      !.colors = Entry("Rumeurs", c)]

\* the callback of the last row under other preferences
LastCallbackUnder(prefs) ==
  RowCallback(prefs, last.before,
              [sm |-> [cssRules |-> last.rulesBefore, styleElement |-> TRUE,
                       sheet |-> last.rulesBefore, head |-> head],
               index |-> last.indexBefore])

\* C13: when the visibility of Rumeurs is visible or hidden, the callback of
\* any row leaves the same row, the same rules, the same counter and the same
\* exception under every other mode and colour of Rumeurs
C13_ModeColorIgnored ==
  (last.pos > 0
   /\ Lookup(preferences.topics, "Rumeurs") \in {"visible", "hidden"})
  => \A m \in ModeValues, c \in ColorValues \cup {Undefined} :
       LET r == LastCallbackUnder(OtherModeColor(m, c))
       IN /\ r.row = dom[last.pos]
          /\ r.eng.sm.cssRules = cssRules
          /\ r.eng.sm.sheet = sheet
          /\ r.eng.index = index
          /\ r.thrown = last.thrown
          /\ r.className = last.className

\* C13 witness: a hidden row was muted while its topic had a mode stored
C13_Witness ==
  /\ Processed
  /\ LastTopic = "hidden"
  /\ LastMode = "color-title"
  /\ "casus-no-post" \in Range(dom[last.pos].rowClasses)
  /\ cssRules = <<BASE>>

\* C14: a callback of the second applyStyles on a visible or hidden row leaves
\* the row as the first left it, and no callback on such a row, in either
\* application, adds a rule or moves the counter
C14_SecondApplySame ==
  (Processed /\ LastTopic \in {"visible", "hidden"})
  => /\ cssRules = last.rulesBefore
     /\ index = last.indexBefore
     /\ last.className = Undefined
     /\ (applies = 2
         => /\ dom[last.pos].rowClasses = last.before.rowClasses
            /\ dom[last.pos].titleClasses = last.before.titleClasses
            /\ dom[last.pos].iconClasses = last.before.iconClasses
            /\ dom[last.pos].iconStyle = last.before.iconStyle)

\* C14 witness: the second application went over a row the first had muted
C14_Witness ==
  /\ Processed
  /\ applies = 2
  /\ LastTopic = "hidden"
  /\ "casus-no-post" \in Range(last.before.rowClasses)
  /\ dom[last.pos].rowClasses = <<"row-item", "casus-no-post">>

\* whether the last handler was the end of a refresh whose fetch succeeded
LastFetched ==
  /\ lastEvent.kind = "refreshDone"
  /\ lastEvent.outcome.kind = "response"
  /\ lastEvent.outcome.ok

\* C15: after a refresh whose fetch succeeded on a page without the count
\* element, the count is the unknown count X and the badge is a white X on
\* gray #555
C15_NoElementShowsX ==
  (LastFetched /\ ~lastEvent.outcome.html.element)
  => /\ FetchOnlineNotifications(lastEvent.outcome) = UnknownCount
     /\ badge = [text |-> "X", background |-> "#555", textColor |-> "#fff"]

\* C15 witness: the badge showed 12 and the page then had no count element
C15_Witness ==
  /\ LastFetched
  /\ ~lastEvent.outcome.html.element
  /\ lastEvent.badgeBefore.text = "12"
  /\ badge.text = "X"

\* C16, as claimed: after a refresh that delivered the unknown count, the
\* badge has the empty text on #555 with text colour #fff
C16_UnknownEmptyText ==
  (/\ lastEvent.kind = "refreshDone"
   /\ FetchOnlineNotifications(lastEvent.outcome) = UnknownCount)
  => badge = [text |-> "", background |-> "#555", textColor |-> "#fff"]

\* C16, amended: after a refresh that delivered the unknown count, the badge
\* has the text X on #555 with text colour #fff
C16_UnknownBadge ==
  (/\ lastEvent.kind = "refreshDone"
   /\ FetchOnlineNotifications(lastEvent.outcome) = UnknownCount)
  => badge = [text |-> "X", background |-> "#555", textColor |-> "#fff"]

\* C16 witness: a count element with an empty text gave the unknown count
C16_Witness ==
  /\ LastFetched
  /\ lastEvent.outcome.html.element
  /\ lastEvent.outcome.html.text = <<>>
  /\ lastEvent.badgeBefore.background = "#d90000"
  /\ badge.background = "#555"

\* the numeral of the page of the last refresh, without surrounding whitespace
LastNumeral == Trim(lastEvent.outcome.html.text)

\* C17: after a refresh whose fetch succeeded with a numeric count n, the
\* badge text is empty when n < 1 and the decimal string of n when n >= 1;
\* the background is #d90000 and the text colour #fff in both cases
C17_NumericBadge ==
  (/\ LastFetched
   /\ lastEvent.outcome.html.element
   /\ LastNumeral # <<>>
   /\ Range(LastNumeral) \subseteq Digits)
  => LET n == Decimal(LastNumeral)
     IN /\ badge.text = IF n < 1 THEN "" ELSE ToString(n)
        /\ badge.background = "#d90000"
        /\ badge.textColor = "#fff"

\* C17 witness: the badge showed 12 and a refresh then delivered the count 0
C17_Witness ==
  /\ LastFetched
  /\ lastEvent.outcome.html.element
  /\ LastNumeral = <<"0">>
  /\ lastEvent.badgeBefore.text = "12"
  /\ badge = [text |-> "", background |-> "#d90000", textColor |-> "#fff"]

\* the badge that presents the result of a refresh: the unknown count when
\* the fetch failed, else the count of the page
ResultBadge(outcome) ==
  IF outcome.kind = "error" \/ ~outcome.ok THEN UpdateBadge(UnknownCount)
  ELSE UpdateBadge(ParseCount(outcome.html))

\* C18, as claimed: when a refresh completes while another is in flight and
\* that other one completes next, as the last in flight, the badge presents
\* the result of that last one
C18_LastCompletedWins ==
  [][(/\ lastEvent.kind = "refreshDone"
      /\ lastEvent.inflightBefore >= 2
      /\ lastEvent'.kind = "refreshDone"
      /\ inflight' = 0)
     => badge' = ResultBadge(lastEvent'.outcome)]_vars

\* C19, as claimed: a reschedule leaves the refreshes in flight as they were,
\* and one of them that completes next writes its result to the badge
C19_InFlightSurvivesReschedule ==
  [][(/\ lastEvent.kind = "onChanged"
      /\ lastEvent.change.refreshRate
      /\ lastEvent.inflightBefore > 0
      /\ lastEvent'.kind = "refreshDone")
     => /\ inflight = lastEvent.inflightBefore
        /\ inflight' = inflight - 1
        /\ badge' = ResultBadge(lastEvent'.outcome)]_vars

\* the period init asks for: the persisted refreshRate, or 5
StartupPeriod == IF store = None THEN Some(5) ELSE store

\* C20: the then-callback of the preference read issues the clear and the
\* create of autoRefresh with the persisted refreshRate, or 5 when there is
\* none, as period; and once the host has carried out a create, the alarm
\* exists with the period of that create
C20_StartupAlarm ==
  /\ (lastEvent.kind = "preferences")
     => /\ prefsRead
        /\ alarmCalls = lastEvent.callsBefore \o
             <<[op |-> "clear", name |-> "autoRefresh", period |-> None],
               [op |-> "create", name |-> "autoRefresh",
                period |-> StartupPeriod]>>
  /\ (/\ lastEvent.kind = "alarmHost"
      /\ Head(lastEvent.callsBefore).op = "create")
     => /\ alarm.exists
        /\ alarm.period = Head(lastEvent.callsBefore).period

\* C20 witness: nothing was persisted, the preferences were read, and the
\* host has carried out the create: autoRefresh exists with period 5
C20_Witness ==
  /\ prefsRead
  /\ store = None
  /\ changes = <<>>
  /\ alarmCalls = <<>>
  /\ lastEvent.kind = "alarmHost"
  /\ lastEvent.badgeBefore = NoBadge
  /\ alarm = [exists |-> TRUE, period |-> Some(5)]

\* whether a tab URL is on the forum's origin
OnForumOrigin(url) == Head(url) = CASUS_NO_URL

\* C21, as claimed: startup, a click, a tab completing on the forum's origin
\* and a firing of autoRefresh each start exactly one refresh; a tab update
\* that is not a completion on the forum's origin starts none; a click also
\* opens one tab
C21_RefreshTriggers ==
  /\ (lastEvent.kind = "startup") => (inflight = 1)
  /\ (lastEvent.kind = "click")
     => /\ inflight = lastEvent.inflightBefore + 1
        /\ tabsOpened = lastEvent.tabsBefore + 1
  /\ (lastEvent.kind = "tabUpdated")
     => inflight = lastEvent.inflightBefore
                   + (IF /\ lastEvent.outcome.kind = "complete"
                         /\ OnForumOrigin(lastEvent.outcome.html.text)
                      THEN 1 ELSE 0)
  /\ (lastEvent.kind = "alarm") => (inflight = lastEvent.inflightBefore + 1)

\* C22, as claimed: a message that reaches the content script of a loaded
\* page after apply has ended makes the document reload when its action is
\* updatePreferences, and does not when it is another action
C22_MessageReloads ==
  (lastMessage.phaseBefore \in {"listening", "failed"})
  => loads = lastMessage.loadsBefore
             + (IF lastMessage.action = "updatePreferences" THEN 1 ELSE 0)

\* C26: since the document was loaded applyStyles was called at most once, on
\* at most one engine call; and the reload that answers updatePreferences
\* leaves the fresh document waiting for its preferences, unstyled
C26_OnePassPerLoad ==
  /\ passes <= 1
  /\ applies <= 1
  /\ (phase = "reading") => (passes = 0 /\ dom = page /\ cssRules = <<>>)
  /\ (lastMessage.action = "updatePreferences"
      /\ lastMessage.phaseBefore = "listening")
     => loads = lastMessage.loadsBefore + 1

\* C26 witness: the styled page was reloaded on updatePreferences and styled
\* once again
C26_Witness ==
  /\ lastMessage.action = "updatePreferences"
  /\ lastMessage.phaseBefore = "listening"
  /\ loads = 2
  /\ phase = "listening"
  /\ passes = 1
  /\ minted = <<"casus-full-line-0">>

\* C23, as claimed: no applyStyles call ends by an exception
C23_ApplyStylesNeverRaises == ~thrown

\* whether row i is a row the callback styles as highlighted
Highlighted(i) ==
  /\ ~Skipped(dom[i])
  /\ Lookup(preferences.topics, ThemeName(dom[i])) = "highlight"

\* the classes of the element the mode of row i designates: the row for
\* full-line, the title for every other mode
TargetClasses(i) ==
  IF Lookup(preferences.modes, ThemeName(dom[i])) = "full-line"
  THEN dom[i].rowClasses ELSE dom[i].titleClasses

\* C25, as claimed: when the k-th applyStyles call has ended, the target
\* element of every highlighted row carries k distinct minted classes, and
\* the registry holds the base rule and one rule per highlighted row per call
C25_ClassesAccumulate ==
  (pos = 0 /\ applies >= 1)
  => /\ \A i \in 1..Len(dom) :
          Highlighted(i)
          => Cardinality({c \in Range(minted) : c \in Range(TargetClasses(i))})
             = applies
     /\ Len(cssRules)
          = 1 + applies * Cardinality({i \in 1..Len(dom) : Highlighted(i)})

\* C30, as claimed: for a highlighted row whose topic has no mode stored, the
\* minted class is casus-full-line-<i>, it is on the row, and its rule sets
\* background-color
C30_DefaultModeFullLine ==
  (Processed /\ LastTopic = "highlight" /\ LastMode = Undefined)
  => /\ last.className = "casus-full-line-" \o ToString(last.indexBefore)
     /\ last.className \in Range(dom[last.pos].rowClasses)
     /\ cssRules[Len(cssRules)] =
          "." \o last.className \o " { background-color: "
          \o Str(LastColor) \o "; }"

\* C24, as claimed: whatever StyleManager operations were called, the style
\* sources of the document other than the one style element of the manager
\* are those the document had
C24_OnlyOwnStyleElement ==
  /\ Without(head, OwnStyle) = <<ForumStyle>>
  /\ Len(head) <= Len(Without(head, OwnStyle)) + 1

\* C24, amended: the constructor appends the Font Awesome stylesheet link to
\* the head and nothing else; insertCSSRules and addRule leave every style
\* source other than the one style element of the manager as it was, and the
\* document's own stylesheet stays first
C24_OwnElementAndFontLink ==
  /\ Head(head) = ForumStyle
  /\ (lastCall.op = "new")
     => head = Append(lastCall.headBefore, FontAwesomeLink)
  /\ (lastCall.op \in {"insertCSSRules", "addRule"})
     => /\ Without(head, OwnStyle) = Without(lastCall.headBefore, OwnStyle)
        /\ Without(head, OwnStyle) = <<ForumStyle, FontAwesomeLink>>
        /\ Len(head) = Len(Without(head, OwnStyle)) + 1

\* C24 witness: a second rule was added to the manager's own style element
C24_Witness ==
  /\ lastCall.op = "addRule"
  /\ lastCall.headBefore = <<ForumStyle, FontAwesomeLink, OwnStyle>>
  /\ head = <<ForumStyle, FontAwesomeLink, OwnStyle>>
  /\ Len(sheet) = 2

\* C27, as claimed: after insertCSSRules or addRule, rejected rule or not, the
\* sheet holds what it held before the call, or the sequence tracked before
\* the call, or the one tracked after it, and equals the tracked sequence
C27_AtomicReplace ==
  (lastCall.op \in {"insertCSSRules", "addRule"})
  => /\ sheet \in {lastCall.sheetBefore, lastCall.rulesBefore, cssRules}
     /\ sheet = cssRules

\* C28, as claimed: every create of autoRefresh that is issued, and the
\* alarm when it exists, has a positive integer as its period
C28_PeriodPositive ==
  /\ \A i \in 1..Len(alarmCalls) :
       (alarmCalls[i].op = "create")
       => /\ alarmCalls[i].period # None
          /\ alarmCalls[i].period[1] \in Nat \ {0}
  /\ alarm.exists
     => /\ alarm.period # None
        /\ alarm.period[1] \in Nat \ {0}

Sender == handlers[tabRead.by]

\* C31: a handler of save or reset has sent its updatePreferences message
\* only if its storage.sync.set / clear call had resolved before: a message
\* on its way comes from a handler whose write is in the store's history, a
\* handler whose store call was rejected or is still pending has sent
\* nothing, and a tab that a message reloaded reads a content of the store
\* at least as new as the write of the handler that sent the message
C31_SentAfterStore ==
  /\ \A id \in DOMAIN handlers :
       /\ handlers[id].sent > 0 => handlers[id].outcome = "resolved"
       /\ handlers[id].outcome = "rejected" => handlers[id].sent = 0
  /\ \A i \in DOMAIN outbox :
       /\ handlers[outbox[i].id].wv \in 2..Len(writes)
       /\ writes[handlers[outbox[i].id].wv]
            = StoreAfter([kind |-> IF handlers[outbox[i].id].kind = "save"
                                   THEN "set" ELSE "clear",
                          value |-> handlers[outbox[i].id].value],
                         writes[handlers[outbox[i].id].wv - 1])
  /\ tabRead.by # 0 => Sender.wv \in 2..Len(writes)
  /\ (tabRead.by # 0 /\ tabRead.version # 0) =>
       /\ tabRead.version >= Sender.wv
       /\ preferences = writes[tabRead.version]
       /\ (tabRead.version = Sender.wv /\ Sender.kind = "save") =>
            /\ preferences.topics = Sender.value.topics
            /\ preferences.colors = Sender.value.colors
            /\ preferences.modes = Sender.value.modes
       /\ (tabRead.version = Sender.wv /\ Sender.kind = "reset") =>
            preferences = NoPreferences

\* a tab reloaded by the message of a save has read what that save wrote and
\* listens again, while another handler's store call was rejected and that
\* handler has ended in its catch
C31_Witness ==
  /\ tabRead.by # 0
  /\ tabRead.version # 0
  /\ Sender.kind = "save"
  /\ Sender.value.topics["Rumeurs"] = "highlight"
  /\ preferences.topics = Sender.value.topics
  /\ phase = "listening"
  /\ loads = 2
  /\ \E id \in DOMAIN handlers :
       /\ handlers[id].outcome = "rejected"
       /\ handlers[id].step = "caught"
       /\ handlers[id].sent = 0
====
